---- MODULE Spec2Model ----
(***************************************************************************)
(* Model of the string extraction pipeline of the i18n-translation skill:  *)
(*   scripts/extract-strings-incremental.py  (cache-backed scan)           *)
(*   scripts/extract-strings-fast.py         (process-pool scan)           *)
(*   scripts/extract-strings.py              (sequential scan)             *)
(*   scripts/split-i18n.py                   (split of a translation file) *)
(* A document is a file of the scanned tree; its bytes are one of a few    *)
(* sample contents.  The cache file on disk, the in-memory cache           *)
(* dictionary and the locals of scan_directory_incremental are the state,  *)
(* with the futures of scan_directory_parallel and the position of main(). *)
(***************************************************************************)
EXTENDS Integers, Sequences, FiniteSets, TLC

\* ------------------------------------------------------------------ bounds
MaxRuns == 3        \* scans started in one behaviour
MaxEdits == 1       \* changes made to the tree or to the cache file by others

\* ------------------------------------------------------- the scanned tree
\* The files of the tree, in the order rglob lists them; the paths are those
\* under the project directory, which is the working directory.
Files == <<"src/a.jsx", "src/b.html", "build/c.js", "rebuild/d.js", "src/e.d.ts">>

FileSet == {Files[i] : i \in 1..Len(Files)}

\* The application's own sources.
SrcFiles == {"src/a.jsx", "src/b.html"}

\* filepath.suffix.lstrip('.')
suffix(f) ==
    CASE f = "src/a.jsx" -> "jsx"
      [] f = "src/b.html" -> "html"
      [] f = "src/e.d.ts" -> "ts"
      [] OTHER -> "js"

\* The file types whose pattern "**/*.{file_type}" matches the file: those
\* its name ends with, after a dot.
extensions(f) ==
    CASE f = "src/a.jsx" -> {"jsx"}
      [] f = "src/b.html" -> {"html"}
      [] f = "src/e.d.ts" -> {"ts", "d.ts"}
      [] OTHER -> {"js"}

\* The ways the project directory is given as source_dir: relative to the
\* working directory, absolute, or a path that does not exist.
Roots == {".", "/proj"}
MissingRoot == "/gone"

\* source_dir.exists()
exists(root) == root \in Roots

\* str(filepath) of a file found by source_dir.rglob
str(root, f) == IF root = "." THEN f ELSE root \o "/" \o f

\* filepath.parts of a file found by source_dir.rglob
parts(root, f) ==
    (IF root = "." THEN <<>> ELSE <<"/", "proj">>)
    \o (CASE f = "src/a.jsx" -> <<"src", "a.jsx">>
          [] f = "src/b.html" -> <<"src", "b.html">>
          [] f = "build/c.js" -> <<"build", "c.js">>
          [] f = "rebuild/d.js" -> <<"rebuild", "d.js">>
          [] f = "src/e.d.ts" -> <<"src", "e.d.ts">>)

\* --exclude default
exclude_default == <<"node_modules", "dist", "build", ".git">>

\* --file-types default
file_types == <<"js", "jsx", "ts", "tsx", "vue", "html">>

\* Sample documents: text that decodes as UTF-8.
\*   Save   : <button>Save</button>
\*   Cancel : <button>Cancel</button>
\*   Dialog : notify('Saved'); notify("Failed")
Text == {"Save", "Cancel", "Dialog"}

\* What a path can hold: a text, bytes that are no UTF-8 text ("Binary"), a
\* file the process may not read ("Unreadable"), or nothing ("Absent").
FileState == Text \cup {"Binary", "Unreadable", "Absent"}

\* ------------------------------------------------------------ fingerprint
\* hashlib.md5(bytes).hexdigest(): one digest per byte content.
md5(bytes) ==
    CASE bytes = "Save"   -> "c9cc8cce"
      [] bytes = "Cancel" -> "ea4788705"
      [] bytes = "Dialog" -> "3f1b7ccad"
      [] bytes = "Binary" -> "6f8db599d"

\* calculate_file_hash: "" when the file cannot be opened or read.
calculate_file_hash(state) ==
    IF state \in {"Unreadable", "Absent"} THEN "" ELSE md5(state)

\* -------------------------------------------------------------- extractor
MarkupTypes == {"jsx", "tsx", "vue", "html"}
ScriptTypes == {"js", "jsx", "ts", "tsx", "vue"}
MarkupCategories ==
    {"jsx_content", "buttons", "labels", "placeholders", "attributes",
     "toasts_alerts"}
ScriptCategories == {"validation", "ui_literals"}

\* The fragments the rule of a category finds in a sample document.
findall(content, category) ==
    CASE content = "Save" /\ category \in {"jsx_content", "buttons"} -> {"Save"}
      [] content = "Cancel" /\ category \in {"jsx_content", "buttons"} -> {"Cancel"}
      [] content = "Dialog" /\ category = "ui_literals" -> {"Saved", "Failed"}
      [] OTHER -> {}

\* Mutant of extract_from_file: a failed read gives empty results instead of
\* the error marker.
extract_from_file_no_marker(state, file_type) ==
    [c \in (IF state \notin Text THEN {}
            ELSE (IF file_type \in MarkupTypes THEN MarkupCategories ELSE {})
                 \cup (IF file_type \in ScriptTypes THEN ScriptCategories ELSE {}))
        |-> findall(state, c)]

\* extract_from_file: the error marker when open/read/decode raises.
extract_from_file(state, file_type) ==
    IF state \notin Text
    THEN [c \in {"error"} |-> {"cannot read"}]
    ELSE [c \in (IF file_type \in MarkupTypes THEN MarkupCategories ELSE {})
                \cup (IF file_type \in ScriptTypes THEN ScriptCategories ELSE {})
            |-> findall(state, c)]

\* ---------------------------------------------------------------- helpers
EmptyMap == [c \in {} |-> {}]

\* Every fragment of the sample documents, in the order one hash seed
\* enumerates a set of strings; another seed enumerates it backwards.
Fragments == <<"Cancel", "Failed", "Save", "Saved">>

Reverse(s) == [k \in 1..Len(s) |-> s[Len(s) + 1 - k]]

RECURSIVE Pick(_, _, _)
\* the members of the set v in the order of the sequence s, from index k on
Pick(s, v, k) ==
    IF k > Len(s) THEN <<>>
    ELSE (IF s[k] \in v THEN <<s[k]>> ELSE <<>>) \o Pick(s, v, k + 1)

\* list(v): the members of the set v, each once, in the order the process's
\* string hash seed gives.
list(v, seed) == Pick(IF seed THEN Fragments ELSE Reverse(Fragments), v, 1)

\* set(strings) of a list
ToSet(s) == {s[i] : i \in DOMAIN s}

\* Mutant of update_strings: a category is assigned the strings of the
\* document instead of being updated with them.
update_strings_assign(acc, results) ==
    [c \in DOMAIN acc \cup DOMAIN results |->
        IF c \in DOMAIN results THEN results[c] ELSE acc[c]]

\* Mutant of update_strings: the label "buttons" is reserved and its strings
\* are not merged.
update_strings_reserved(acc, results) ==
    [c \in DOMAIN acc \cup DOMAIN results |->
        (IF c \in DOMAIN acc THEN acc[c] ELSE {})
        \cup (IF c \in DOMAIN results /\ c # "buttons" THEN results[c] ELSE {})]

\* all_strings[category].update(strings) for every category of one document
\* (a defaultdict(set): a category is created by its first update).
update_strings(acc, results) ==
    [c \in DOMAIN acc \cup DOMAIN results |->
        (IF c \in DOMAIN acc THEN acc[c] ELSE {})
        \cup (IF c \in DOMAIN results THEN results[c] ELSE {})]

\* Mutant of update_counts: a category keeps the largest number of strings
\* one document gave instead of the sum over the documents.
update_counts_max(acc, results) ==
    [c \in DOMAIN acc \cup DOMAIN results |->
        LET old == IF c \in DOMAIN acc THEN acc[c] ELSE 0
            new == IF c \in DOMAIN results THEN Cardinality(results[c]) ELSE 0
        IN IF new > old THEN new ELSE old]

\* file_counts[category] += len(strings) for every category of one document
update_counts(acc, results) ==
    [c \in DOMAIN acc \cup DOMAIN results |->
        (IF c \in DOMAIN acc THEN acc[c] ELSE 0)
        + (IF c \in DOMAIN results THEN Cardinality(results[c]) ELSE 0)]

\* file_counts[category] += len(strings) for every category of a cached
\* entry, whose strings are lists
update_counts_cached(acc, lists) ==
    [c \in DOMAIN acc \cup DOMAIN lists |->
        (IF c \in DOMAIN acc THEN acc[c] ELSE 0)
        + (IF c \in DOMAIN lists THEN Len(lists[c]) ELSE 0)]

\* ------------------------------------------------------------- cache file
\* The persisted file: absent, or a text that is a JSON object of entries
\* ("object"), a JSON document of another shape ("list": []), bytes json.load
\* rejects ("garbage") or a file opened for writing and not yet written in
\* full ("truncated").  An entry is an object {hash, timestamp, results} or
\* a JSON value of another type (isobj = FALSE).
NoEntries == [f \in {} |-> 0]
AbsentFile == [kind |-> "absent", entries |-> NoEntries]
NotAnObject ==
    [isobj |-> FALSE, hash |-> "", timestamp |-> 0,
     results |-> [c \in {} |-> <<>>]]

\* load_cache: {} when the file is absent or json.load raises.
load_cache(file) ==
    CASE file.kind = "object" -> [shape |-> "dict", entries |-> file.entries]
      [] file.kind = "list" -> [shape |-> "list", entries |-> NoEntries]
      [] OTHER -> [shape |-> "dict", entries |-> NoEntries]

\* Mutant of json_dump: the timestamps are not written.
json_dump_no_timestamp(cache) ==
    [kind |-> IF cache.shape = "dict" THEN "object" ELSE "list",
     entries |-> [f \in DOMAIN cache.entries |->
                    [cache.entries[f] EXCEPT !.timestamp = 0]]]

\* json.dump(cache, f) once the whole text is on disk.
json_dump(cache) ==
    [kind |-> IF cache.shape = "dict" THEN "object" ELSE "list",
     entries |-> cache.entries]

\* The file between open(cache_path, 'w') and the end of json.dump.
TruncatedFile == [kind |-> "truncated", entries |-> NoEntries]

\* Mutant of upsert: the cache is replaced by the one new entry.
upsert_alone(cache, f, entry) ==
    [cache EXCEPT !.entries = [g \in {f} |-> entry]]

\* Mutant of upsert: the results of a prior entry are kept and the new ones
\* appended to them.
upsert_merge(cache, f, entry) ==
    [cache EXCEPT !.entries =
        [g \in DOMAIN cache.entries \cup {f} |->
            IF g # f THEN cache.entries[g]
            ELSE IF f \in DOMAIN cache.entries
            THEN [entry EXCEPT !.results =
                    [c \in DOMAIN entry.results |->
                        (IF c \in DOMAIN cache.entries[f].results
                         THEN cache.entries[f].results[c] ELSE <<>>)
                        \o entry.results[c]]]
            ELSE entry]]

\* cache[file_str] = {...}
upsert(cache, f, entry) ==
    [cache EXCEPT !.entries =
        [g \in DOMAIN cache.entries \cup {f} |->
            IF g = f THEN entry ELSE cache.entries[g]]]

\* -------------------------------------------------------------- discovery
\* What the directory source_dir holds: the tree, or nothing when there is
\* no such directory.
under(root, tree) ==
    IF exists(root) THEN tree ELSE [f \in FileSet |-> "Absent"]

RECURSIVE rglob(_, _, _)
\* the paths of the tree, from index i on, that exist and match *.file_type
rglob(tree, file_type, i) ==
    IF i > Len(Files) THEN <<>>
    ELSE (IF tree[Files[i]] # "Absent" /\ file_type \in extensions(Files[i])
          THEN <<Files[i]>> ELSE <<>>) \o rglob(tree, file_type, i + 1)

\* Mutant of in_parts: a segment that contains the name counts as well.
in_parts_substring(name, ps) ==
    \E k \in DOMAIN ps :
        ps[k] = name \/ (name = "build" /\ ps[k] = "rebuild")

\* exclude_dir in filepath.parts: some element of the tuple equals the name
in_parts(name, ps) == \E k \in DOMAIN ps : ps[k] = name

\* any(exclude_dir in filepath.parts for exclude_dir in exclude_dirs)
excluded(root, f, excl) ==
    \E k \in DOMAIN excl : in_parts(excl[k], parts(root, f))

RECURSIVE collect_files(_, _, _, _, _)
\* all_files: one rglob per file type, appended in turn, without the paths
\* that are excluded
collect_files(root, tree, types, excl, k) ==
    IF k > Len(types) THEN <<>>
    ELSE SelectSeq(rglob(under(root, tree), types[k], 1),
                   LAMBDA f : ~excluded(root, f, excl))
         \o collect_files(root, tree, types, excl, k + 1)

\* ------------------------------------------------------------------ state
VARIABLES
    fs,                 \* path -> FileState
    cacheFile,          \* the persisted cache file
    now,                \* scans and runs of main() started so far; the clock
                        \* of datetime.now()
    edits,              \* changes made by others so far
    touched,            \* the cache file was changed by others since the last scan
    pc,                 \* where scan_directory_incremental stands
    force_rescan,       \* its argument
    cache,              \* its dictionary, from load_cache
    all_files, files_to_process, cached_files,
    all_strings, file_counts,
    i,                  \* index of the loop in progress
    error,              \* the exception that left the function, or "none"
    calls,              \* paths handed to extract_from_file in this scan
    failed,             \* paths whose extraction returned the error marker
    hits,               \* paths served from the cache in this scan
    saves,              \* save_cache calls of this scan
    cacheBefore,        \* the cache file as this scan found it
    fsBefore,           \* the tree as this scan found it
    intact,             \* this scan found the cache file as the last scan left it
    prev,               \* what the scan before this one did
    source_dir, scan_types, exclude_dirs,   \* source_dir, file_types, exclude_dirs
                        \* as given to the scan
    main_pc,            \* where main() stands
    given_dir,          \* the source_dir of its command line
    output,             \* the output file
    \* scan_directory_parallel (extract-strings-fast.py)
    par_pc,             \* where scan_directory_parallel stands
    par_files,          \* its all_files: (filepath, file_type) pairs
    workers_arg,        \* its argument workers; 0 stands for None
    workers,            \* max_workers of the pool
    pending,            \* indices of the futures as_completed has yet to yield
    par_strings, par_counts,    \* its all_strings and file_counts
    completed,          \* its counter of merged documents
    crashed,            \* index of the work item whose worker process died, or 0
    order,              \* the indices in the order as_completed yielded them
    \* scan_directory (extract-strings.py)
    seq_pc,             \* "idle" or "done"
    seq_strings, seq_counts,    \* what it returned
    \* a second run of scan_directory_incremental on the same cache directory
    peer_pc,            \* where it stands
    peer_cache,         \* its dictionary
    peer_new,           \* the identities it stored an entry for
    \* split-i18n.py
    split_pc,           \* where its main() stands
    data,               \* the source mapping: key -> value
    features,           \* list(prefixes.keys())
    split_data,         \* what split_by_feature returned: group -> mapping
    json_files          \* the files written: name -> mapping

vars == <<fs, cacheFile, now, edits, touched, pc, force_rescan, cache,
          all_files, files_to_process, cached_files, all_strings, file_counts,
          i, error, calls, failed, hits, saves, cacheBefore, fsBefore, intact,
          prev, source_dir, scan_types, exclude_dirs, main_pc, given_dir, output,
          par_pc, par_files, workers_arg, workers, pending, par_strings,
          par_counts, completed, crashed, order, seq_pc, seq_strings,
          seq_counts, peer_pc, peer_cache, peer_new, split_pc, data, features,
          split_data, json_files>>

\* the state of scan_directory_parallel
parvars == <<par_pc, par_files, workers_arg, workers, pending, par_strings,
             par_counts, completed, crashed, order>>

\* the arguments of the scan
scanargs == <<source_dir, scan_types, exclude_dirs>>

\* the state of main()
mainvars == <<main_pc, given_dir, output>>

\* the locals of the scan and what is recorded about it
locals == <<force_rescan, cache, all_files, files_to_process, cached_files,
            all_strings, file_counts, i, error, calls, failed, hits, saves,
            cacheBefore, fsBefore, intact, prev>>

\* the state of the sequential scan, of the second incremental run and of
\* split-i18n.py
seqvars == <<seq_pc, seq_strings, seq_counts>>
peervars == <<peer_pc, peer_cache, peer_new>>
splitvars == <<split_pc, data, features, split_data, json_files>>
aside == <<seqvars, peervars, splitvars>>

Resting == {"idle", "done", "raised", "killed"}

\* Neither the sequential scan, nor a second run, nor split-i18n.py has
\* been started.
AsideIdle ==
    /\ seq_pc = "idle"
    /\ seq_strings = EmptyMap
    /\ seq_counts = EmptyMap
    /\ peer_pc = "idle"
    /\ peer_cache = load_cache(AbsentFile)
    /\ peer_new = {}
    /\ split_pc = "off"
    /\ data = EmptyMap
    /\ features = <<>>
    /\ split_data = EmptyMap
    /\ json_files = EmptyMap

NoScan ==
    [outcome |-> "none", fs |-> [f \in FileSet |-> "Absent"],
     strings |-> EmptyMap, counts |-> EmptyMap, cached_files |-> 0, ncalls |-> 0]

\* The output file was never written.
NoOutput == [written |-> FALSE, strings |-> EmptyMap]

Init ==
    /\ fs = [f \in FileSet |-> IF f \in SrcFiles THEN "Save" ELSE "Absent"]
    /\ cacheFile = AbsentFile
    /\ now = 0
    /\ edits = 0
    /\ touched = FALSE
    /\ pc = "idle"
    /\ force_rescan = FALSE
    /\ cache = load_cache(AbsentFile)
    /\ all_files = <<>>
    /\ files_to_process = <<>>
    /\ cached_files = 0
    /\ all_strings = EmptyMap
    /\ file_counts = EmptyMap
    /\ i = 1
    /\ error = "none"
    /\ calls = <<>>
    /\ failed = {}
    /\ hits = {}
    /\ saves = 0
    /\ cacheBefore = AbsentFile
    /\ fsBefore = fs
    /\ intact = TRUE
    /\ prev = NoScan
    /\ source_dir = "."
    /\ scan_types = file_types
    /\ exclude_dirs = exclude_default
    /\ main_pc = "off"
    /\ given_dir = "."
    /\ output = NoOutput
    /\ par_pc = "idle"
    /\ par_files = <<>>
    /\ workers_arg = 0
    /\ workers = 0
    /\ pending = {}
    /\ par_strings = EmptyMap
    /\ par_counts = EmptyMap
    /\ completed = 0
    /\ crashed = 0
    /\ order = <<>>
    /\ AsideIdle

\* ------------------------------------------------------------ environment
\* Another process rewrites, removes, creates or protects a file of the tree.
EditFile(f, s) ==
    /\ pc \in Resting
    /\ edits < MaxEdits
    /\ s # fs[f]
    /\ fs' = [fs EXCEPT ![f] = s]
    /\ edits' = edits + 1
    /\ UNCHANGED <<cacheFile, now, touched, pc>>
    /\ UNCHANGED locals
    /\ UNCHANGED parvars
    /\ UNCHANGED aside
    /\ UNCHANGED <<scanargs, mainvars>>

\* The cache file is damaged between scans: unparseable bytes, a JSON
\* document that is no object, or an object with an entry that is no object.
CorruptCache(k, f) ==
    /\ pc \in Resting
    /\ edits < MaxEdits
    /\ cacheFile' =
         CASE k = "garbage" -> [kind |-> "garbage", entries |-> NoEntries]
           [] k = "list" -> [kind |-> "list", entries |-> NoEntries]
           [] k = "entry" ->
                [kind |-> "object",
                 entries |->
                    [g \in (IF cacheFile.kind = "object"
                            THEN DOMAIN cacheFile.entries ELSE {}) \cup {f} |->
                        IF g = f THEN NotAnObject ELSE cacheFile.entries[g]]]
    /\ cacheFile' # cacheFile
    /\ edits' = edits + 1
    /\ touched' = TRUE
    /\ UNCHANGED <<fs, now, pc>>
    /\ UNCHANGED locals
    /\ UNCHANGED parvars
    /\ UNCHANGED aside
    /\ UNCHANGED <<scanargs, mainvars>>

\* --------------------------------------------- scan_directory_incremental
\* What is kept of the scan that stood at pc when the next one starts.
Summary ==
    IF pc = "done"
    THEN [outcome |-> "done", fs |-> fsBefore, strings |-> all_strings,
          counts |-> file_counts, cached_files |-> cached_files,
          ncalls |-> Len(calls)]
    ELSE [NoScan EXCEPT !.outcome = IF pc = "idle" THEN "none" ELSE pc]

\* Lines 197-201: the call, load_cache and the empty accumulators.
BeginScan(force, root, types, excl) ==
    /\ pc \in Resting
    /\ now < MaxRuns
    /\ now' = now + 1
    /\ prev' = Summary
    /\ force_rescan' = force
    /\ source_dir' = root
    /\ scan_types' = types
    /\ exclude_dirs' = excl
    /\ cache' = load_cache(cacheFile)
    /\ cacheBefore' = cacheFile
    /\ fsBefore' = fs
    /\ intact' = ~touched
    /\ touched' = FALSE
    /\ all_strings' = EmptyMap
    /\ file_counts' = EmptyMap
    /\ all_files' = <<>>
    /\ files_to_process' = <<>>
    /\ cached_files' = 0
    /\ i' = 1
    /\ error' = "none"
    /\ calls' = <<>>
    /\ failed' = {}
    /\ hits' = {}
    /\ saves' = 0
    /\ pc' = "collect"
    /\ UNCHANGED <<fs, cacheFile, edits>>
    /\ UNCHANGED parvars
    /\ UNCHANGED aside

\* scan_directory_incremental called on the project directory with the
\* default file types and exclusions.
StartScan(force) ==
    /\ BeginScan(force, ".", file_types, exclude_default)
    /\ UNCHANGED mainvars

\* Mutant of CollectFiles: force_rescan is not looked at.
CollectFiles_no_force ==
    /\ pc = "collect"
    /\ all_files' = collect_files(source_dir, fs, scan_types, exclude_dirs, 1)
    /\ pc' = IF all_files' = <<>> THEN "done" ELSE "classify"
    /\ files_to_process' = <<>>
    /\ i' = 1
    /\ UNCHANGED <<fs, cacheFile, now, edits, touched, force_rescan, cache,
                   cached_files, all_strings, file_counts, error, calls, failed,
                   hits, saves, cacheBefore, fsBefore, intact, prev>>
    /\ UNCHANGED parvars
    /\ UNCHANGED aside
    /\ UNCHANGED <<scanargs, mainvars>>

\* Lines 203-221: collect the files; return at once when there are none;
\* with force_rescan every file is to be processed.
CollectFiles ==
    /\ pc = "collect"
    /\ all_files' = collect_files(source_dir, fs, scan_types, exclude_dirs, 1)
    /\ pc' = IF all_files' = <<>> THEN "done"
             ELSE IF force_rescan THEN "process" ELSE "classify"
    /\ files_to_process' = IF force_rescan THEN all_files' ELSE <<>>
    /\ i' = 1
    /\ UNCHANGED <<fs, cacheFile, now, edits, touched, force_rescan, cache,
                   cached_files, all_strings, file_counts, error, calls, failed,
                   hits, saves, cacheBefore, fsBefore, intact, prev>>
    /\ UNCHANGED parvars
    /\ UNCHANGED aside
    /\ UNCHANGED <<scanargs, mainvars>>

\* Mutant of cached_results: the strings of a cached entry are dropped.
cached_results_dropped(entry) == [c \in DOMAIN entry.results |-> {}]

\* The results of a cached entry as sets: {category: set(strings)}.
cached_results(entry) == [c \in DOMAIN entry.results |-> ToSet(entry.results[c])]

\* Lines 223-236, one iteration: a file whose hash equals the cached hash is
\* served from the cache, any other is to be processed.
ClassifyFile ==
    /\ pc = "classify"
    /\ i <= Len(all_files)
    /\ LET f == all_files[i]
           file_str == str(source_dir, f)
           current_hash == calculate_file_hash(fs[f])
           known == cache.shape = "dict" /\ file_str \in DOMAIN cache.entries
       IN  IF known /\ ~cache.entries[file_str].isobj
           THEN \* cache[file_str].get on a value that is no dict
                /\ pc' = "raised"
                /\ error' = "AttributeError"
                /\ UNCHANGED <<files_to_process, cached_files, all_strings,
                               file_counts, i, hits>>
           ELSE /\ IF known /\ cache.entries[file_str].hash = current_hash
                   THEN /\ all_strings' =
                             update_strings(all_strings, cached_results(cache.entries[file_str]))
                        /\ file_counts' =
                             update_counts_cached(file_counts, cache.entries[file_str].results)
                        /\ cached_files' = cached_files + 1
                        /\ hits' = hits \cup {f}
                        /\ UNCHANGED files_to_process
                   ELSE /\ files_to_process' = Append(files_to_process, f)
                        /\ UNCHANGED <<all_strings, file_counts, cached_files, hits>>
                /\ i' = i + 1
                /\ UNCHANGED <<pc, error>>
    /\ UNCHANGED <<fs, cacheFile, now, edits, touched, force_rescan, cache,
                   all_files, calls, failed, saves, cacheBefore, fsBefore,
                   intact, prev>>
    /\ UNCHANGED parvars
    /\ UNCHANGED aside
    /\ UNCHANGED <<scanargs, mainvars>>

\* Mutant of EndClassify: the strings of every cache entry are surfaced,
\* also those of entries no discovered file has.
EndClassify_all_entries ==
    /\ pc = "classify"
    /\ i > Len(all_files)
    /\ pc' = IF Len(files_to_process) > 0 THEN "process" ELSE "done"
    /\ i' = 1
    /\ all_strings' =
         [c \in DOMAIN all_strings \cup
                UNION {DOMAIN cache.entries[k].results : k \in DOMAIN cache.entries} |->
            (IF c \in DOMAIN all_strings THEN all_strings[c] ELSE {})
            \cup UNION {ToSet(cache.entries[k].results[c]) :
                          k \in {e \in DOMAIN cache.entries :
                                   c \in DOMAIN cache.entries[e].results}}]
    /\ UNCHANGED <<fs, cacheFile, now, edits, touched, force_rescan, cache,
                   all_files, files_to_process, cached_files,
                   file_counts, error, calls, failed, hits, saves, cacheBefore,
                   fsBefore, intact, prev>>
    /\ UNCHANGED parvars
    /\ UNCHANGED aside
    /\ UNCHANGED <<scanargs, mainvars>>

\* Mutant of EndClassify: the loop and save_cache are reached also with
\* nothing to process.
EndClassify_always_process ==
    /\ pc = "classify"
    /\ i > Len(all_files)
    /\ pc' = "process"
    /\ i' = 1
    /\ UNCHANGED <<fs, cacheFile, now, edits, touched, force_rescan, cache,
                   all_files, files_to_process, cached_files, all_strings,
                   file_counts, error, calls, failed, hits, saves, cacheBefore,
                   fsBefore, intact, prev>>
    /\ UNCHANGED parvars
    /\ UNCHANGED aside
    /\ UNCHANGED <<scanargs, mainvars>>

\* Lines 238-250: the statistics; with nothing to process the function returns.
EndClassify ==
    /\ pc = "classify"
    /\ i > Len(all_files)
    /\ pc' = IF Len(files_to_process) > 0 THEN "process" ELSE "done"
    /\ i' = 1
    /\ UNCHANGED <<fs, cacheFile, now, edits, touched, force_rescan, cache,
                   all_files, files_to_process, cached_files, all_strings,
                   file_counts, error, calls, failed, hits, saves, cacheBefore,
                   fsBefore, intact, prev>>
    /\ UNCHANGED parvars
    /\ UNCHANGED aside
    /\ UNCHANGED <<scanargs, mainvars>>

\* Mutant of new_entry: the entry is stored without the hash of the file.
new_entry_no_hash(state, results, seed) ==
    [isobj |-> TRUE, hash |-> "", timestamp |-> now,
     results |-> [c \in DOMAIN results |-> list(results[c], seed)]]

\* The cache entry of lines 265-269: the hash read again from the file, the
\* time, and every result set as a list.
new_entry(state, results, seed) ==
    [isobj |-> TRUE, hash |-> calculate_file_hash(state), timestamp |-> now,
     results |-> [c \in DOMAIN results |-> list(results[c], seed)]]

\* Lines 253-273, one iteration: extract; unless the error marker came back,
\* read the file again for its hash, store the entry and merge the results.
\* The file holds s when calculate_file_hash reads it.
ProcessStep(s) ==
    /\ LET f == files_to_process[i]
           results == extract_from_file(fs[f], suffix(f))
           file_str == str(source_dir, f)
       IN  /\ calls' = Append(calls, f)
           /\ IF "error" \in DOMAIN results
              THEN /\ s = fs[f]
                   /\ failed' = failed \cup {f}
                   /\ i' = i + 1
                   /\ UNCHANGED <<fs, cache, all_strings, file_counts, pc, error>>
              ELSE IF cache.shape # "dict"
              THEN \* cache[file_str] = {...} on a list
                   /\ fs' = [fs EXCEPT ![f] = s]
                   /\ pc' = "raised"
                   /\ error' = "TypeError"
                   /\ UNCHANGED <<cache, all_strings, file_counts, failed, i>>
              ELSE /\ fs' = [fs EXCEPT ![f] = s]
                   /\ \E seed \in BOOLEAN :
                        cache' = upsert(cache, file_str, new_entry(s, results, seed))
                   /\ all_strings' = update_strings(all_strings, results)
                   /\ file_counts' = update_counts(file_counts, results)
                   /\ i' = i + 1
                   /\ UNCHANGED <<failed, pc, error>>
    /\ UNCHANGED <<cacheFile, now, touched, force_rescan, all_files,
                   files_to_process, cached_files, hits, saves, cacheBefore,
                   fsBefore, intact, prev>>
    /\ UNCHANGED parvars
    /\ UNCHANGED aside
    /\ UNCHANGED <<scanargs, mainvars>>

\* One iteration while nobody else writes the file.
ProcessFile ==
    /\ pc = "process"
    /\ i <= Len(files_to_process)
    /\ ProcessStep(fs[files_to_process[i]])
    /\ UNCHANGED edits

\* One iteration while another process rewrites, removes or protects the
\* file between the read of extract_from_file and that of calculate_file_hash.
ProcessFileRace(s) ==
    /\ pc = "process"
    /\ i <= Len(files_to_process)
    /\ edits < MaxEdits
    /\ s # fs[files_to_process[i]]
    /\ ProcessStep(s)
    /\ edits' = edits + 1

\* Mutant of SaveOpen: the cache is saved after any iteration of the loop.
SaveOpen_early ==
    /\ pc = "process"
    /\ cacheFile' = TruncatedFile
    /\ saves' = saves + 1
    /\ pc' = "saving"
    /\ UNCHANGED <<fs, now, edits, touched, force_rescan, cache, all_files,
                   files_to_process, cached_files, all_strings, file_counts, i,
                   error, calls, failed, hits, cacheBefore, fsBefore, intact,
                   prev>>
    /\ UNCHANGED parvars
    /\ UNCHANGED aside
    /\ UNCHANGED <<scanargs, mainvars>>

\* Line 276 and lines 71-73: save_cache opens the cache file for writing,
\* which empties it.
SaveOpen ==
    /\ pc = "process"
    /\ i > Len(files_to_process)
    /\ cacheFile' = TruncatedFile
    /\ saves' = saves + 1
    /\ pc' = "saving"
    /\ UNCHANGED <<fs, now, edits, touched, force_rescan, cache, all_files,
                   files_to_process, cached_files, all_strings, file_counts, i,
                   error, calls, failed, hits, cacheBefore, fsBefore, intact,
                   prev>>
    /\ UNCHANGED parvars
    /\ UNCHANGED aside
    /\ UNCHANGED <<scanargs, mainvars>>

\* Lines 72-73: makedirs or open raises (no permission, read-only directory).
SaveOpenFails ==
    /\ pc = "process"
    /\ i > Len(files_to_process)
    /\ saves' = saves + 1
    /\ pc' = "raised"
    /\ error' = "OSError"
    /\ UNCHANGED <<fs, cacheFile, now, edits, touched, force_rescan, cache,
                   all_files, files_to_process, cached_files, all_strings,
                   file_counts, i, calls, failed, hits, cacheBefore, fsBefore,
                   intact, prev>>
    /\ UNCHANGED parvars
    /\ UNCHANGED aside
    /\ UNCHANGED <<scanargs, mainvars>>

\* Line 74: json.dump writes the whole text and the file is closed.
SaveWrite ==
    /\ pc = "saving"
    /\ cacheFile' = json_dump(cache)
    /\ pc' = "saved"
    /\ UNCHANGED <<fs, now, edits, touched, force_rescan, cache, all_files,
                   files_to_process, cached_files, all_strings, file_counts, i,
                   error, calls, failed, hits, saves, cacheBefore, fsBefore,
                   intact, prev>>
    /\ UNCHANGED parvars
    /\ UNCHANGED aside
    /\ UNCHANGED <<scanargs, mainvars>>

\* Line 74: a write raises (disk full, I/O error) with the text written in part.
SaveWriteFails ==
    /\ pc = "saving"
    /\ pc' = "raised"
    /\ error' = "OSError"
    /\ UNCHANGED <<fs, cacheFile, now, edits, touched, force_rescan, cache,
                   all_files, files_to_process, cached_files, all_strings,
                   file_counts, i, calls, failed, hits, saves, cacheBefore,
                   fsBefore, intact, prev>>
    /\ UNCHANGED parvars
    /\ UNCHANGED aside
    /\ UNCHANGED <<scanargs, mainvars>>

\* Lines 277-279: the function returns dict(all_strings), dict(file_counts).
Return ==
    /\ pc = "saved"
    /\ pc' = "done"
    /\ UNCHANGED <<fs, cacheFile, now, edits, touched, force_rescan, cache,
                   all_files, files_to_process, cached_files, all_strings,
                   file_counts, i, error, calls, failed, hits, saves,
                   cacheBefore, fsBefore, intact, prev>>
    /\ UNCHANGED parvars
    /\ UNCHANGED aside
    /\ UNCHANGED <<scanargs, mainvars>>

\* The process is stopped (killed, power loss) wherever it stands; nothing it
\* held in memory is returned to anyone.
Kill ==
    /\ pc \notin Resting
    /\ pc' = "killed"
    /\ all_files' = <<>>
    /\ files_to_process' = <<>>
    /\ cached_files' = 0
    /\ all_strings' = EmptyMap
    /\ file_counts' = EmptyMap
    /\ i' = 1
    /\ calls' = <<>>
    /\ failed' = {}
    /\ hits' = {}
    /\ UNCHANGED <<fs, cacheFile, now, edits, touched, force_rescan, cache,
                   error, saves, cacheBefore, fsBefore, intact, prev>>
    /\ UNCHANGED parvars
    /\ UNCHANGED aside
    /\ UNCHANGED <<scanargs, mainvars>>

Next ==
    \/ \E f \in SrcFiles, s \in FileState : EditFile(f, s)
    \/ \E k \in {"garbage", "list", "entry"}, f \in SrcFiles : CorruptCache(k, f)
    \/ \E force \in BOOLEAN : StartScan(force)
    \/ CollectFiles
    \/ ClassifyFile
    \/ EndClassify
    \/ ProcessFile
    \/ SaveOpen
    \/ SaveOpenFails
    \/ SaveWrite
    \/ SaveWriteFails
    \/ Return
    \/ Kill

Spec == Init /\ [][Next]_vars

\* Scans of the application's sources while other processes write to them,
\* between scans or between the two reads one iteration makes of a file.
NextRace ==
    \/ \E f \in SrcFiles, s \in FileState : EditFile(f, s)
    \/ \E force \in BOOLEAN : StartScan(force)
    \/ CollectFiles
    \/ ClassifyFile
    \/ EndClassify
    \/ ProcessFile
    \/ \E s \in FileState : ProcessFileRace(s)
    \/ SaveOpen
    \/ SaveWrite
    \/ Return

SpecRace == Init /\ [][NextRace]_vars

\* ------------------------------------------------ scan_directory_parallel
\* cpu_count() of the machine
CpuCount == 2

\* Mutant of Min: the first argument.
Min_first(a, b) == a

Min(a, b) == IF a < b THEN a ELSE b

RECURSIVE collect_typed(_, _, _, _, _)
\* Lines 170-177: all_files as (filepath, file_type) pairs, without the paths
\* that are excluded
collect_typed(root, tree, types, excl, k) ==
    IF k > Len(types) THEN <<>>
    ELSE LET paths == SelectSeq(rglob(under(root, tree), types[k], 1),
                                LAMBDA f : ~excluded(root, f, excl))
         IN  [j \in 1..Len(paths) |-> <<paths[j], types[k]>>]
             \o collect_typed(root, tree, types, excl, k + 1)

\* process_file: (str(filepath), extract_from_file(filepath, file_type))
process_file(tree, args) == <<args[1], extract_from_file(tree[args[1]], args[2])>>

\* Lines 166-191: collect the files, return when there are none, else size
\* the pool (w = 0 stands for workers=None) and submit one future per file.
BeginParallel(w, root, types, excl) ==
    /\ par_pc = "idle"
    /\ par_files' = collect_typed(root, fs, types, excl, 1)
    /\ workers_arg' = w
    /\ par_strings' = EmptyMap
    /\ par_counts' = EmptyMap
    /\ completed' = 0
    /\ crashed' = 0
    /\ order' = <<>>
    /\ IF par_files' = <<>>
       THEN /\ par_pc' = "done"
            /\ pending' = {}
            /\ workers' = 0
       ELSE /\ par_pc' = "pool"
            /\ pending' = 1..Len(par_files')
            /\ workers' = IF w = 0 THEN Min(CpuCount, Len(par_files')) ELSE w
    /\ UNCHANGED <<fs, cacheFile, edits, touched, pc>>
    /\ UNCHANGED locals
    /\ UNCHANGED aside
    /\ UNCHANGED scanargs

\* scan_directory_parallel called with the arguments at hand.
ParStart(w) ==
    /\ BeginParallel(w, source_dir, scan_types, exclude_dirs)
    /\ UNCHANGED now
    /\ UNCHANGED mainvars

\* Lines 193-207, one iteration: as_completed yields a finished future, in
\* whatever order the workers finish; an error marker is skipped, any other
\* result is merged.
Complete(k) ==
    /\ par_pc = "pool"
    /\ k \in pending
    /\ pending' = pending \ {k}
    /\ order' = Append(order, k)
    /\ LET results == process_file(fs, par_files[k])[2]
       IN  IF "error" \in DOMAIN results
           THEN UNCHANGED <<par_strings, par_counts, completed>>
           ELSE /\ par_strings' = update_strings(par_strings, results)
                /\ par_counts' = update_counts(par_counts, results)
                /\ completed' = completed + 1
    /\ UNCHANGED <<par_pc, par_files, workers_arg, workers, crashed>>
    /\ UNCHANGED <<fs, cacheFile, now, edits, touched, pc>>
    /\ UNCHANGED locals
    /\ UNCHANGED aside
    /\ UNCHANGED <<scanargs, mainvars>>

\* Line 194: the worker process that runs work item k dies (killed, out of
\* memory); future.result() raises BrokenProcessPool, which nothing catches:
\* it leaves scan_directory_parallel and nothing is returned.
WorkerFails(k) ==
    /\ par_pc = "pool"
    /\ k \in pending
    /\ par_pc' = "raised"
    /\ crashed' = k
    /\ pending' = {}
    /\ par_strings' = EmptyMap
    /\ par_counts' = EmptyMap
    /\ completed' = 0
    /\ order' = <<>>
    /\ UNCHANGED <<par_files, workers_arg, workers>>
    /\ UNCHANGED <<fs, cacheFile, now, edits, touched, pc>>
    /\ UNCHANGED locals
    /\ UNCHANGED aside
    /\ UNCHANGED <<scanargs, mainvars>>

\* Line 209: every future was yielded, the pool is shut down, the function
\* returns dict(all_strings), dict(file_counts).
ParReturn ==
    /\ par_pc = "pool"
    /\ pending = {}
    /\ par_pc' = "done"
    /\ UNCHANGED <<par_files, workers_arg, workers, pending, par_strings,
                   par_counts, completed, crashed, order>>
    /\ UNCHANGED <<fs, cacheFile, now, edits, touched, pc>>
    /\ UNCHANGED locals
    /\ UNCHANGED aside
    /\ UNCHANGED <<scanargs, mainvars>>

\* Any tree of the application's sources, with or without scripts in build/
\* and rebuild/; the incremental scan and its cache stay as they are.
InitParallel ==
    /\ fs \in {t \in [FileSet -> FileState] :
                 /\ \A f \in FileSet \ SrcFiles : t[f] \in {"Absent", "Dialog"}
                 /\ t["src/e.d.ts"] = "Absent"}
    /\ cacheFile = AbsentFile
    /\ now = 0
    /\ edits = 0
    /\ touched = FALSE
    /\ pc = "idle"
    /\ force_rescan = FALSE
    /\ cache = load_cache(AbsentFile)
    /\ all_files = <<>>
    /\ files_to_process = <<>>
    /\ cached_files = 0
    /\ all_strings = EmptyMap
    /\ file_counts = EmptyMap
    /\ i = 1
    /\ error = "none"
    /\ calls = <<>>
    /\ failed = {}
    /\ hits = {}
    /\ saves = 0
    /\ cacheBefore = AbsentFile
    /\ fsBefore = fs
    /\ intact = TRUE
    /\ prev = NoScan
    /\ source_dir = "."
    /\ scan_types = file_types
    /\ exclude_dirs \in {exclude_default, <<"dist">>}
    /\ main_pc = "off"
    /\ given_dir = "."
    /\ output = NoOutput
    /\ par_pc = "idle"
    /\ par_files = <<>>
    /\ workers_arg = 0
    /\ workers = 0
    /\ pending = {}
    /\ par_strings = EmptyMap
    /\ par_counts = EmptyMap
    /\ completed = 0
    /\ crashed = 0
    /\ order = <<>>
    /\ AsideIdle

NextParallel ==
    \/ \E w \in 0..CpuCount : ParStart(w)
    \/ \E k \in 1..Len(par_files) : Complete(k)
    \/ \E k \in 1..Len(par_files) : WorkerFails(k)
    \/ ParReturn

SpecParallel == InitParallel /\ [][NextParallel]_vars

\* Every work item terminates: a pending future is yielded by as_completed,
\* with its result or with the failure of its worker, and the loop goes on
\* to its end.
FairParallel ==
    /\ WF_vars(\E k \in 1..Len(par_files) : Complete(k) \/ WorkerFails(k))
    /\ WF_vars(ParReturn)

SpecParallelFair == InitParallel /\ [][NextParallel]_vars /\ FairParallel

\* ------------------------------------------------------------------ main
\* The command lines main() is run with: the project directory given as a
\* relative path, as an absolute path, or a directory that is not there; the
\* build directory no longer excluded; one file type only.
CommandLine(root, types, excl) ==
    [source_dir |-> root, file_types |-> types, exclude |-> excl, force |-> FALSE]

\* The command lines of extract-strings-fast.py.
FastInvocations ==
    {CommandLine(".", file_types, exclude_default),
     CommandLine(MissingRoot, file_types, exclude_default)}

Invocations ==
    {CommandLine(".", file_types, exclude_default),
     CommandLine("/proj", file_types, exclude_default),
     CommandLine(MissingRoot, file_types, exclude_default),
     CommandLine(".", file_types, <<"dist">>),
     CommandLine(".", <<"jsx">>, exclude_default)}

\* Mutant of Main: the scan is started without a look at source_dir.
Main_no_check(argv) ==
    /\ main_pc \in {"off", "exit0", "exit1"}
    /\ given_dir' = argv.source_dir
    /\ BeginScan(argv.force, argv.source_dir, argv.file_types, argv.exclude)
    /\ main_pc' = "scan"
    /\ UNCHANGED output

\* main(), lines 376-401 of extract-strings-incremental.py: exit with status
\* 1 when source_dir does not exist, else call scan_directory_incremental.
Main(argv) ==
    /\ main_pc \in {"off", "exit0", "exit1"}
    /\ given_dir' = argv.source_dir
    /\ IF ~exists(argv.source_dir)
       THEN /\ pc \in Resting
            /\ now < MaxRuns
            /\ now' = now + 1
            /\ main_pc' = "exit1"
            /\ UNCHANGED <<fs, cacheFile, edits, touched, pc, output>>
            /\ UNCHANGED locals
            /\ UNCHANGED scanargs
            /\ UNCHANGED parvars
            /\ UNCHANGED aside
       ELSE /\ BeginScan(argv.force, argv.source_dir, argv.file_types, argv.exclude)
            /\ main_pc' = "scan"
            /\ UNCHANGED output

\* main() of extract-strings-fast.py, lines 294-318: exit with status 1 when
\* source_dir does not exist, else call scan_directory_parallel.
FastMain(argv) ==
    /\ main_pc \in {"off", "exit0", "exit1"}
    /\ pc \in Resting
    /\ par_pc = "idle"
    /\ now < MaxRuns
    /\ now' = now + 1
    /\ given_dir' = argv.source_dir
    /\ IF ~exists(argv.source_dir)
       THEN /\ main_pc' = "exit1"
            /\ UNCHANGED <<fs, cacheFile, edits, touched, pc, output>>
            /\ UNCHANGED locals
            /\ UNCHANGED scanargs
            /\ UNCHANGED parvars
            /\ UNCHANGED aside
       ELSE /\ BeginParallel(0, argv.source_dir, argv.file_types, argv.exclude)
            /\ main_pc' = "fastscan"
            /\ UNCHANGED output

\* Lines 320-345 of extract-strings-fast.py: the scan returned; the summary
\* is printed and the output file written.
FastWriteOutput ==
    /\ main_pc = "fastscan"
    /\ par_pc = "done"
    /\ output' = [written |-> TRUE, strings |-> par_strings]
    /\ main_pc' = "exit0"
    /\ UNCHANGED given_dir
    /\ UNCHANGED <<fs, cacheFile, now, edits, touched, pc>>
    /\ UNCHANGED locals
    /\ UNCHANGED scanargs
    /\ UNCHANGED parvars
    /\ UNCHANGED aside

\* Lines 403-428: the scan returned; the summary is printed and the output
\* file written.
WriteOutput ==
    /\ main_pc = "scan"
    /\ pc = "done"
    /\ output' = [written |-> TRUE, strings |-> all_strings]
    /\ main_pc' = "exit0"
    /\ UNCHANGED given_dir
    /\ UNCHANGED <<fs, cacheFile, now, edits, touched, pc>>
    /\ UNCHANGED locals
    /\ UNCHANGED scanargs
    /\ UNCHANGED parvars
    /\ UNCHANGED aside

\* A project with two sources and a script in build/.
InitMain ==
    /\ fs = [f \in FileSet |->
                CASE f = "src/a.jsx" -> "Save"
                  [] f = "src/b.html" -> "Cancel"
                  [] f = "build/c.js" -> "Dialog"
                  [] OTHER -> "Absent"]
    /\ cacheFile = AbsentFile
    /\ now = 0
    /\ edits = 0
    /\ touched = FALSE
    /\ pc = "idle"
    /\ force_rescan = FALSE
    /\ cache = load_cache(AbsentFile)
    /\ all_files = <<>>
    /\ files_to_process = <<>>
    /\ cached_files = 0
    /\ all_strings = EmptyMap
    /\ file_counts = EmptyMap
    /\ i = 1
    /\ error = "none"
    /\ calls = <<>>
    /\ failed = {}
    /\ hits = {}
    /\ saves = 0
    /\ cacheBefore = AbsentFile
    /\ fsBefore = fs
    /\ intact = TRUE
    /\ prev = NoScan
    /\ source_dir = "."
    /\ scan_types = file_types
    /\ exclude_dirs = exclude_default
    /\ main_pc = "off"
    /\ given_dir = "."
    /\ output = NoOutput
    /\ par_pc = "idle"
    /\ par_files = <<>>
    /\ workers_arg = 0
    /\ workers = 0
    /\ pending = {}
    /\ par_strings = EmptyMap
    /\ par_counts = EmptyMap
    /\ completed = 0
    /\ crashed = 0
    /\ order = <<>>
    /\ AsideIdle

\* Runs of main() one after the other; between them a file may be removed.
NextMain ==
    \/ \E argv \in Invocations : Main(argv)
    \/ \E f \in FileSet : EditFile(f, "Absent")
    \/ CollectFiles
    \/ ClassifyFile
    \/ EndClassify
    \/ ProcessFile
    \/ SaveOpen
    \/ SaveWrite
    \/ Return
    \/ WriteOutput
    \/ \E argv \in FastInvocations : FastMain(argv)
    \/ \E k \in 1..Len(par_files) : Complete(k)
    \/ ParReturn
    \/ FastWriteOutput

SpecMain == InitMain /\ [][NextMain]_vars

\* -------------------------------------------------------------- discovery
\* The exclusion lists discovery is run with: the default, one without
\* build, build and src, none, and the name of a directory above the project.
Exclusions ==
    {exclude_default, <<"dist">>, <<"build", "src">>, <<>>, <<"proj">>}

\* scan_directory_incremental called with the arguments at hand.
CallScan ==
    /\ BeginScan(FALSE, source_dir, scan_types, exclude_dirs)
    /\ UNCHANGED mainvars

\* Any set of the four files outside the type declarations, the project
\* directory given either way, any
\* of the exclusion lists.
InitDiscovery ==
    /\ fs \in {t \in [FileSet -> {"Absent", "Save", "Dialog"}] :
                 /\ \A f \in SrcFiles : t[f] # "Dialog"
                 /\ \A f \in FileSet \ SrcFiles : t[f] # "Save"
                 /\ t["src/e.d.ts"] = "Absent"}
    /\ source_dir \in Roots
    /\ scan_types = file_types
    /\ exclude_dirs \in Exclusions
    /\ cacheFile = AbsentFile
    /\ now = 0
    /\ edits = 0
    /\ touched = FALSE
    /\ pc = "idle"
    /\ force_rescan = FALSE
    /\ cache = load_cache(AbsentFile)
    /\ all_files = <<>>
    /\ files_to_process = <<>>
    /\ cached_files = 0
    /\ all_strings = EmptyMap
    /\ file_counts = EmptyMap
    /\ i = 1
    /\ error = "none"
    /\ calls = <<>>
    /\ failed = {}
    /\ hits = {}
    /\ saves = 0
    /\ cacheBefore = AbsentFile
    /\ fsBefore = fs
    /\ intact = TRUE
    /\ prev = NoScan
    /\ main_pc = "off"
    /\ given_dir = "."
    /\ output = NoOutput
    /\ par_pc = "idle"
    /\ par_files = <<>>
    /\ workers_arg = 0
    /\ workers = 0
    /\ pending = {}
    /\ par_strings = EmptyMap
    /\ par_counts = EmptyMap
    /\ completed = 0
    /\ crashed = 0
    /\ order = <<>>
    /\ AsideIdle

\* The discovery of both scanners.
NextDiscovery ==
    \/ CallScan
    \/ CollectFiles
    \/ \E w \in 0..CpuCount : ParStart(w)

SpecDiscovery == InitDiscovery /\ [][NextDiscovery]_vars

\* ------------------------------------------------------------ split-i18n
\* A key of the source file is written as the tuple of its segments between
\* dots: <<"auth", "login">> is "auth.login".  The keys a source file may
\* hold, in the order it lists them; the value of a key is written as the
\* key itself, every key having its own translation.
KeyList ==
    <<<<"common", "ok">>, <<"title">>, <<"auth", "login">>, <<"auth", "logout">>,
      <<"save">>, <<"common", "cancel">>>>
Keys == {KeyList[n] : n \in 1..Len(KeyList)}

\* key.startswith(f"{feature}.")
startswith(key, feature) == Len(key) > 1 /\ key[1] = feature

\* split_by_prefix with prefix f"{feature}.": the keys that start with the
\* prefix, the prefix removed
split_by_prefix(d, feature) ==
    [new_key \in {Tail(key) : key \in {k \in DOMAIN d : startswith(k, feature)}} |->
        d[<<feature>> \o new_key]]

\* result[name] = mapping
assign(result, name, mapping) ==
    [g \in DOMAIN result \cup {name} |-> IF g = name THEN mapping ELSE result[g]]

RECURSIVE feature_groups(_, _, _, _)
\* Lines 51-54: one group per feature that has keys
feature_groups(d, feats, n, result) ==
    IF n > Len(feats) THEN result
    ELSE LET feature_data == split_by_prefix(d, feats[n])
         IN  feature_groups(d, feats, n + 1,
                IF DOMAIN feature_data # {}
                THEN assign(result, feats[n], feature_data) ELSE result)

\* split_by_feature: the feature groups, then the keys that start with no
\* feature prefix under 'common'
split_by_feature(d, feats) ==
    LET result == feature_groups(d, feats, 1, EmptyMap)
        remaining ==
            [key \in {k \in DOMAIN d :
                        ~\E n \in DOMAIN feats : startswith(k, feats[n])} |-> d[key]]
    IN  IF DOMAIN remaining # {} THEN assign(result, "common", remaining)
        ELSE result

\* analyze_keys: prefix -> number of keys, for the keys that hold a dot
analyze_keys(d) ==
    [prefix \in {key[1] : key \in {k \in DOMAIN d : Len(k) > 1}} |->
        Cardinality({k \in DOMAIN d : Len(k) > 1 /\ k[1] = prefix})]

RECURSIVE prefix_list(_, _, _)
\* list(prefixes.keys()): the prefixes in the order their first key stands
\* in the file
prefix_list(d, n, seen) ==
    IF n > Len(KeyList) THEN <<>>
    ELSE LET key == KeyList[n]
             is_new == key \in DOMAIN d /\ Len(key) > 1 /\ key[1] \notin seen
         IN  (IF is_new THEN <<key[1]>> ELSE <<>>)
             \o prefix_list(d, n + 1, IF is_new THEN seen \cup {key[1]} ELSE seen)

\* Lines 92-103: the source file is loaded and its prefixes are counted.
AnalyzeKeys ==
    /\ split_pc = "loaded"
    /\ features' = prefix_list(data, 1, {})
    /\ split_pc' = "analyzed"
    /\ UNCHANGED <<data, split_data, json_files>>
    /\ UNCHANGED <<fs, cacheFile, now, edits, touched, pc>>
    /\ UNCHANGED locals
    /\ UNCHANGED parvars
    /\ UNCHANGED <<scanargs, mainvars>>
    /\ UNCHANGED <<seqvars, peervars>>

\* Lines 106-111, mode --by-prefix with prefixes found: split_by_feature.
SplitByFeature ==
    /\ split_pc = "analyzed"
    /\ DOMAIN analyze_keys(data) # {}
    /\ split_data' = split_by_feature(data, features)
    /\ split_pc' = "split"
    /\ UNCHANGED <<data, features, json_files>>
    /\ UNCHANGED <<fs, cacheFile, now, edits, touched, pc>>
    /\ UNCHANGED locals
    /\ UNCHANGED parvars
    /\ UNCHANGED <<scanargs, mainvars>>
    /\ UNCHANGED <<seqvars, peervars>>

\* Lines 113-116: one file {feature}.json per group.
SaveGroups ==
    /\ split_pc = "split"
    /\ json_files' = split_data
    /\ split_pc' = "written"
    /\ UNCHANGED <<data, features, split_data>>
    /\ UNCHANGED <<fs, cacheFile, now, edits, touched, pc>>
    /\ UNCHANGED locals
    /\ UNCHANGED parvars
    /\ UNCHANGED <<scanargs, mainvars>>
    /\ UNCHANGED <<seqvars, peervars>>

\* Lines 118-123: no key holds a dot, nothing is split.
NoSplit ==
    /\ split_pc = "analyzed"
    /\ DOMAIN analyze_keys(data) = {}
    /\ split_pc' = "manual"
    /\ UNCHANGED <<data, features, split_data, json_files>>
    /\ UNCHANGED <<fs, cacheFile, now, edits, touched, pc>>
    /\ UNCHANGED locals
    /\ UNCHANGED parvars
    /\ UNCHANGED <<scanargs, mainvars>>
    /\ UNCHANGED <<seqvars, peervars>>

\* Any source file over the keys, loaded by main().
InitSplit ==
    /\ \E keys \in SUBSET Keys : data = [key \in keys |-> key]
    /\ split_pc = "loaded"
    /\ features = <<>>
    /\ split_data = EmptyMap
    /\ json_files = EmptyMap
    /\ seq_pc = "idle"
    /\ seq_strings = EmptyMap
    /\ seq_counts = EmptyMap
    /\ peer_pc = "idle"
    /\ peer_cache = load_cache(AbsentFile)
    /\ peer_new = {}
    /\ fs = [f \in FileSet |-> "Absent"]
    /\ cacheFile = AbsentFile
    /\ now = 0
    /\ edits = 0
    /\ touched = FALSE
    /\ pc = "idle"
    /\ force_rescan = FALSE
    /\ cache = load_cache(AbsentFile)
    /\ all_files = <<>>
    /\ files_to_process = <<>>
    /\ cached_files = 0
    /\ all_strings = EmptyMap
    /\ file_counts = EmptyMap
    /\ i = 1
    /\ error = "none"
    /\ calls = <<>>
    /\ failed = {}
    /\ hits = {}
    /\ saves = 0
    /\ cacheBefore = AbsentFile
    /\ fsBefore = fs
    /\ intact = TRUE
    /\ prev = NoScan
    /\ source_dir = "."
    /\ scan_types = file_types
    /\ exclude_dirs = exclude_default
    /\ main_pc = "off"
    /\ given_dir = "."
    /\ output = NoOutput
    /\ par_pc = "idle"
    /\ par_files = <<>>
    /\ workers_arg = 0
    /\ workers = 0
    /\ pending = {}
    /\ par_strings = EmptyMap
    /\ par_counts = EmptyMap
    /\ completed = 0
    /\ crashed = 0
    /\ order = <<>>

NextSplit ==
    \/ AnalyzeKeys
    \/ SplitByFeature
    \/ SaveGroups
    \/ NoSplit

SpecSplit == InitSplit /\ [][NextSplit]_vars

\* ------------------------------ two runs that share the cache directory
\* A second process runs scan_directory_incremental on the project directory
\* with the same --cache-dir and --file-types html, while the first runs it
\* with --file-types jsx.  Of the second run the model keeps what touches
\* the cache file: the load, the entries stored, the two steps of the save.
PeerTypes == <<"html">>

\* its all_files
peer_files == ToSet(collect_files(".", fs, PeerTypes, exclude_default, 1))

\* its files_to_process: no entry, or another hash (lines 219-236)
peer_to_process ==
    {f \in peer_files :
        \/ f \notin DOMAIN peer_cache.entries
        \/ peer_cache.entries[f].hash # calculate_file_hash(fs[f])}

\* Line 198 of the second run: load_cache.
PeerLoad ==
    /\ peer_pc = "idle"
    /\ peer_cache' = load_cache(cacheFile)
    /\ peer_pc' = "loaded"
    /\ UNCHANGED peer_new
    /\ UNCHANGED <<fs, cacheFile, now, edits, touched, pc>>
    /\ UNCHANGED locals
    /\ UNCHANGED parvars
    /\ UNCHANGED <<scanargs, mainvars>>
    /\ UNCHANGED <<seqvars, splitvars>>

\* Lines 203-273 of the second run: discovery, classification and the loop
\* that stores an entry for every document extracted without the error
\* marker; with nothing to process it returns.
PeerScan ==
    /\ peer_pc = "loaded"
    /\ peer_new' = {f \in peer_to_process : fs[f] \in Text}
    /\ \E seed \in BOOLEAN :
        peer_cache' =
            [peer_cache EXCEPT !.entries =
                [g \in DOMAIN peer_cache.entries \cup peer_new' |->
                    IF g \in peer_new'
                    THEN new_entry(fs[g], extract_from_file(fs[g], suffix(g)), seed)
                    ELSE peer_cache.entries[g]]]
    /\ peer_pc' = IF peer_to_process = {} THEN "done" ELSE "scanned"
    /\ UNCHANGED <<fs, cacheFile, now, edits, touched, pc>>
    /\ UNCHANGED locals
    /\ UNCHANGED parvars
    /\ UNCHANGED <<scanargs, mainvars>>
    /\ UNCHANGED <<seqvars, splitvars>>

\* Line 276 and lines 71-73 of the second run: the cache file is opened for
\* writing.
PeerSaveOpen ==
    /\ peer_pc = "scanned"
    /\ cacheFile' = TruncatedFile
    /\ peer_pc' = "saving"
    /\ UNCHANGED <<peer_cache, peer_new>>
    /\ UNCHANGED <<fs, now, edits, touched, pc>>
    /\ UNCHANGED locals
    /\ UNCHANGED parvars
    /\ UNCHANGED <<scanargs, mainvars>>
    /\ UNCHANGED <<seqvars, splitvars>>

\* Line 74 of the second run: json.dump writes its dictionary.
PeerSaveWrite ==
    /\ peer_pc = "saving"
    /\ cacheFile' = json_dump(peer_cache)
    /\ peer_pc' = "done"
    /\ UNCHANGED <<peer_cache, peer_new>>
    /\ UNCHANGED <<fs, now, edits, touched, pc>>
    /\ UNCHANGED locals
    /\ UNCHANGED parvars
    /\ UNCHANGED <<scanargs, mainvars>>
    /\ UNCHANGED <<seqvars, splitvars>>

\* The first run: scan_directory_incremental with --file-types jsx.
ScanJsx ==
    /\ BeginScan(FALSE, ".", <<"jsx">>, exclude_default)
    /\ UNCHANGED mainvars

\* The two runs, their steps in any order.
NextOverlap ==
    \/ ScanJsx
    \/ CollectFiles
    \/ ClassifyFile
    \/ EndClassify
    \/ ProcessFile
    \/ SaveOpen
    \/ SaveWrite
    \/ Return
    \/ PeerLoad
    \/ PeerScan
    \/ PeerSaveOpen
    \/ PeerSaveWrite

SpecOverlap == Init /\ [][NextOverlap]_vars

\* ------------------------------------- scan_directory (extract-strings.py)
\* extract_from_file of extract-strings.py: {} when open/read/decode raises,
\* the same categories by file_type otherwise.
seq_extract_from_file(state, file_type) ==
    IF state \notin Text THEN EmptyMap ELSE extract_from_file(state, file_type)

RECURSIVE scan_directory(_, _, _, _)
\* Lines 183-196: for every file type and every path its pattern matches
\* that is not excluded, extract with that file type and merge.
scan_directory(tree, items, k, acc) ==
    IF k > Len(items) THEN acc
    ELSE LET results == seq_extract_from_file(tree[items[k][1]], items[k][2])
         IN  scan_directory(tree, items, k + 1,
                [strings |-> update_strings(acc.strings, results),
                 counts |-> update_counts(acc.counts, results)])

\* scan_directory called with the arguments at hand; it returns
\* dict(all_strings), dict(file_counts).
SeqScan ==
    /\ seq_pc = "idle"
    /\ LET returned ==
            scan_directory(fs, collect_typed(source_dir, fs, scan_types, exclude_dirs, 1),
                           1, [strings |-> EmptyMap, counts |-> EmptyMap])
       IN  /\ seq_strings' = returned.strings
           /\ seq_counts' = returned.counts
    /\ seq_pc' = "done"
    /\ UNCHANGED <<fs, cacheFile, now, edits, touched, pc>>
    /\ UNCHANGED locals
    /\ UNCHANGED parvars
    /\ UNCHANGED <<scanargs, mainvars>>
    /\ UNCHANGED <<peervars, splitvars>>

\* ----------------------------------------- the three scanners, one tree
\* --file-types as given on the command line: the default, a type given
\* twice, a compound extension next to the simple one and alone, and a type
\* no file has.
TypeLists ==
    {file_types, <<"jsx", "jsx">>, <<"ts", "d.ts">>, <<"d.ts">>, <<"py">>}

\* A cache file json.load rejects.
GarbageFile == [kind |-> "garbage", entries |-> NoEntries]

\* A tree of the two sources and the type declarations, one of the lists of
\* file types, and a cache file that is absent or unparseable.
InitCompare ==
    /\ fs \in {t \in [FileSet -> FileState] :
                 /\ t["src/a.jsx"] \in {"Save", "Unreadable"}
                 /\ t["src/b.html"] \in {"Cancel", "Absent"}
                 /\ t["src/e.d.ts"] \in {"Dialog", "Absent"}
                 /\ t["build/c.js"] = "Absent"
                 /\ t["rebuild/d.js"] = "Absent"}
    /\ source_dir = "."
    /\ scan_types \in TypeLists
    /\ exclude_dirs = exclude_default
    /\ cacheFile \in {AbsentFile, GarbageFile}
    /\ now = 0
    /\ edits = 0
    /\ touched = FALSE
    /\ pc = "idle"
    /\ force_rescan = FALSE
    /\ cache = load_cache(AbsentFile)
    /\ all_files = <<>>
    /\ files_to_process = <<>>
    /\ cached_files = 0
    /\ all_strings = EmptyMap
    /\ file_counts = EmptyMap
    /\ i = 1
    /\ error = "none"
    /\ calls = <<>>
    /\ failed = {}
    /\ hits = {}
    /\ saves = 0
    /\ cacheBefore = cacheFile
    /\ fsBefore = fs
    /\ intact = TRUE
    /\ prev = NoScan
    /\ main_pc = "off"
    /\ given_dir = "."
    /\ output = NoOutput
    /\ par_pc = "idle"
    /\ par_files = <<>>
    /\ workers_arg = 0
    /\ workers = 0
    /\ pending = {}
    /\ par_strings = EmptyMap
    /\ par_counts = EmptyMap
    /\ completed = 0
    /\ crashed = 0
    /\ order = <<>>
    /\ AsideIdle

\* The three programs are run one after the other on the tree: incremental
\* scans, then the sequential scan, then the parallel scan.
RunIncremental == seq_pc = "idle" /\ par_pc = "idle" /\ CallScan
RunSequential == pc \in Resting /\ par_pc = "idle" /\ SeqScan
RunParallel == pc \in Resting /\ seq_pc = "done" /\ ParStart(0)

NextCompare ==
    \/ RunIncremental
    \/ CollectFiles
    \/ ClassifyFile
    \/ EndClassify
    \/ ProcessFile
    \/ SaveOpen
    \/ SaveWrite
    \/ Return
    \/ RunSequential
    \/ RunParallel
    \/ \E k \in 1..Len(par_files) : Complete(k)
    \/ ParReturn

SpecCompare == InitCompare /\ [][NextCompare]_vars


\* ================================================================ claims
\* The scan in progress follows a scan that returned (the run before), and
\* found the cache file as that scan left it.
AfterRun == prev.outcome = "done" /\ intact

\* ... and found the tree as that scan found it, and is no forced rescan.
Rerun == AfterRun /\ prev.fs = fsBefore /\ ~force_rescan

InFiles(f) == \E k \in DOMAIN all_files : all_files[k] = f
ToProcess(f) == \E k \in DOMAIN files_to_process : files_to_process[k] = f
Called(f) == \E k \in DOMAIN calls : calls[k] = f

C2_AsStated ==
    (pc = "done" /\ prev.outcome = "done") =>
        \A d \in FileSet :
            (InFiles(d) /\ prev.fs[d] \notin {fsBefore[d], "Absent"}) =>
                /\ ToProcess(d) /\ Called(d)
                /\ d \in DOMAIN cache.entries
                /\ cache.entries[d].hash = calculate_file_hash(fsBefore[d])
                /\ cached_results(cache.entries[d]) = extract_from_file(fsBefore[d], suffix(d))
                /\ ~touched => cacheFile = json_dump(cache)

\* the entry of d in the dictionary load_cache returned to this scan
Loaded(d) == load_cache(cacheBefore).entries[d]
WasCached(d) == d \in DOMAIN load_cache(cacheBefore).entries

\* C2, amended: a document that the run before read as text and whose
\* content changed since to another text has a hash that differs from the
\* cached one, is to be processed and is extracted, and its cache entry, in
\* memory and on disk, holds the hash and the results of the new content
\* only; a document whose new content cannot be read is handed to
\* extract_from_file too, and its cache entry stays as it was.
C2_Changed ==
    (pc = "done" /\ prev.outcome = "done") =>
        \A d \in FileSet :
            /\ (InFiles(d) /\ prev.fs[d] \in Text /\ fsBefore[d] \in Text /\ prev.fs[d] # fsBefore[d]) =>
                /\ WasCached(d) => Loaded(d).hash # calculate_file_hash(fsBefore[d])
                /\ ToProcess(d) /\ Called(d)
                /\ d \in DOMAIN cache.entries
                /\ cache.entries[d].hash = md5(fsBefore[d])
                /\ cache.entries[d].timestamp = now
                /\ cached_results(cache.entries[d]) = extract_from_file(fsBefore[d], suffix(d))
                /\ ~touched => cacheFile = json_dump(cache)
            /\ (InFiles(d) /\ prev.fs[d] \in Text /\ fsBefore[d] \notin Text) =>
                /\ ToProcess(d) /\ Called(d)
                /\ WasCached(d) => (d \in DOMAIN cache.entries /\ cache.entries[d] = Loaded(d))
                /\ ~WasCached(d) => d \notin DOMAIN cache.entries

\* C2 witness: a cached document was rewritten and the next scan replaced
\* its entry.
C2_Witness ==
    /\ pc = "done" /\ AfterRun /\ ~force_rescan
    /\ \E d \in FileSet :
        /\ prev.fs[d] = "Save" /\ fsBefore[d] = "Cancel"
        /\ WasCached(d) /\ Loaded(d).hash = md5("Save")
        /\ Called(d)
        /\ ~touched /\ cacheFile.kind = "object" /\ cacheFile.entries[d].hash = md5("Cancel")

\* The two documents of the scenario: a and b.
DocA == Files[1]
DocB == Files[2]
BothSave == [f \in FileSet |-> IF f \in SrcFiles THEN "Save" ELSE "Absent"]
SaveCancel == [BothSave EXCEPT ![DocB] = "Cancel"]

\* the fragments of the category of the scenario, and nothing but them
Aggregate(S) ==
    /\ "buttons" \in DOMAIN all_strings
    /\ all_strings["buttons"] = S
    /\ \A c \in DOMAIN all_strings : all_strings[c] \subseteq S

\* the run before was run 1 of the scenario, resp. run 2
PrevRun1 ==
    AfterRun /\ prev.fs = BothSave /\ prev.cached_files = 0 /\ prev.ncalls = 2
PrevRun2 ==
    AfterRun /\ prev.fs = BothSave /\ prev.cached_files = 2 /\ prev.ncalls = 0

\* C3: the three runs of the scenario.  Run 1 (no cache file, both documents
\* hold Save): aggregate {Save}, no hit, two extractions, two cache entries.
\* Run 2 (nothing changed): the same aggregate, two hits, no extraction.
\* Run 3 (b now holds Cancel): aggregate {Save, Cancel}, a is the one hit and
\* b the one extraction.
C3_Scenario ==
    (pc = "done" /\ ~force_rescan) =>
        /\ (prev.outcome = "none" /\ cacheBefore = AbsentFile /\ fsBefore = BothSave) =>
            /\ Aggregate({"Save"})
            /\ cached_files = 0 /\ hits = {}
            /\ calls = <<DocA, DocB>>
            /\ DOMAIN cache.entries = {DocA, DocB}
            /\ ~touched => (cacheFile.kind = "object" /\ DOMAIN cacheFile.entries = {DocA, DocB})
        /\ (PrevRun1 /\ fsBefore = BothSave) =>
            /\ Aggregate({"Save"}) /\ all_strings = prev.strings
            /\ cached_files = 2 /\ hits = {DocA, DocB}
            /\ calls = <<>>
        /\ (PrevRun2 /\ fsBefore = SaveCancel) =>
            /\ Aggregate({"Save", "Cancel"})
            /\ cached_files = 1 /\ hits = {DocA}
            /\ calls = <<DocB>>

\* C3 witness: run 3 of the scenario has returned.
C3_Witness ==
    /\ pc = "done" /\ ~force_rescan /\ now = 3
    /\ PrevRun2 /\ fsBefore = SaveCancel
    /\ calls = <<DocB>>

\* What a scan of the tree returns when every document is extracted: the
\* union, per category, of the results of the documents that can be read.
Readable(tree) == {f \in FileSet : tree[f] \in Text}
fresh(tree, f) == extract_from_file(tree[f], suffix(f))
expected_strings(tree) ==
    [c \in UNION {DOMAIN fresh(tree, f) : f \in Readable(tree)} |->
        UNION {fresh(tree, f)[c] :
                 f \in {g \in Readable(tree) : c \in DOMAIN fresh(tree, g)}}]

RECURSIVE count_from(_, _, _)
\* the fragments of category c in the readable documents from index k on
count_from(tree, c, k) ==
    IF k > Len(Files) THEN 0
    ELSE (IF Files[k] \in Readable(tree) /\ c \in DOMAIN fresh(tree, Files[k])
          THEN Cardinality(fresh(tree, Files[k])[c]) ELSE 0)
         + count_from(tree, c, k + 1)

expected_counts(tree) ==
    [c \in UNION {DOMAIN fresh(tree, f) : f \in Readable(tree)} |->
        count_from(tree, c, 1)]

\* The persisted cache file is no well-formed cache.
Malformed(file) ==
    \/ file.kind \in {"garbage", "list", "truncated"}
    \/ file.kind = "object" /\ \E f \in DOMAIN file.entries : ~file.entries[f].isobj

\* C4 as stated: a scan that finds a malformed cache file does not raise,
\* extracts every discovered document and returns what a scan without a
\* cache file returns.
C4_AsStated ==
    (Malformed(cacheBefore) /\ pc \in {"done", "raised"} /\ error # "OSError") =>
        /\ pc = "done"
        /\ files_to_process = all_files /\ calls = all_files
        /\ all_strings = expected_strings(fsBefore)

\* the documents handed to extract_from_file whose read failed
FailedDocs == {f \in FileSet : Called(f) /\ fsBefore[f] \notin Text}
\* the loop over files_to_process has ended
Processed == pc \in {"saving", "saved", "done"} \/ (pc = "process" /\ i > Len(files_to_process))
\* the tree without the documents of F
Without(tree, F) == [f \in FileSet |-> IF f \in F THEN "Absent" ELSE tree[f]]

\* C5: in a scan where exactly one document fails to be read, the failure
\* does not end the scan (the scan returns unless the loaded cache is no dict
\* or save_cache raises); every other document is aggregated, as a hit or
\* by extraction; the aggregate and the counts are those of the tree without
\* the failed document; the cache entry of the failed document is neither
\* created nor changed.
C5_OneFailure ==
    (Cardinality(FailedDocs) = 1) =>
        /\ pc = "raised" =>
            \/ error = "TypeError" /\ cacheBefore.kind = "list"
            \/ error = "OSError" /\ saves = 1
        /\ Processed =>
            /\ all_strings = expected_strings(Without(fsBefore, FailedDocs))
            /\ file_counts = expected_counts(Without(fsBefore, FailedDocs))
            /\ \A g \in FileSet \ FailedDocs :
                InFiles(g) =>
                    \/ g \in hits
                    \/ /\ Called(g) /\ g \in DOMAIN cache.entries
                       /\ cached_results(cache.entries[g]) = fresh(fsBefore, g)
            /\ \A f \in FailedDocs :
                /\ f \in failed /\ f \notin hits
                /\ WasCached(f) => (f \in DOMAIN cache.entries /\ cache.entries[f] = Loaded(f))
                /\ ~WasCached(f) => f \notin DOMAIN cache.entries

\* C5 witness: a scan of two documents, one of which could not be read,
\* returned the fragments of the other.
C5_Witness ==
    /\ pc = "done" /\ Len(all_files) = 2
    /\ Cardinality(FailedDocs) = 1
    /\ \E c \in DOMAIN all_strings : all_strings[c] # {}
    /\ \E f \in FailedDocs : WasCached(f)

RECURSIVE in_order_strings(_, _, _)
\* the aggregate when the futures are merged in the order of submission
in_order_strings(tree, files, k) ==
    IF k = 0 THEN EmptyMap
    ELSE LET results == process_file(tree, files[k])[2]
             acc == in_order_strings(tree, files, k - 1)
         IN  IF "error" \in DOMAIN results THEN acc ELSE update_strings(acc, results)

RECURSIVE in_order_counts(_, _, _)
\* the counts when the futures are merged in the order of submission
in_order_counts(tree, files, k) ==
    IF k = 0 THEN EmptyMap
    ELSE LET results == process_file(tree, files[k])[2]
             acc == in_order_counts(tree, files, k - 1)
         IN  IF "error" \in DOMAIN results THEN acc ELSE update_counts(acc, results)

\* C6: whatever the order in which as_completed yields the futures, the
\* aggregate and the counts scan_directory_parallel returns are those of the
\* merge in the order of submission.
C6_OrderIndependent ==
    par_pc = "done" =>
        /\ par_strings = in_order_strings(fs, par_files, Len(par_files))
        /\ par_counts = in_order_counts(fs, par_files, Len(par_files))

\* C6 witness: the second future was yielded before the first, and the two
\* documents gave different fragments of one category.
C6_Witness ==
    /\ par_pc = "done"
    /\ order = <<2, 1>>
    /\ "buttons" \in DOMAIN par_strings
    /\ par_strings["buttons"] = {"Save", "Cancel"}

\* C7 as stated: when the process stops during save_cache, what load_cache
\* then reads from the cache file is the complete cache of before or the
\* complete new one.
C7_AsStated ==
    (pc = "killed" /\ saves > 0 /\ ~touched) =>
        (load_cache(cacheFile) = load_cache(cacheBefore) \/ load_cache(cacheFile) = cache)

C9_AsStated ==
    (error = "OSError") =>
        /\ pc = "done"
        /\ ~touched => cacheFile = cacheBefore

discovered == {f \in FileSet : InFiles(f)}

\* what a discovered document gave this scan: the strings of its cache entry
\* when it was a hit, those extracted from it when it was processed
contribution(f) ==
    IF f \in hits THEN cached_results(cache.entries[str(source_dir, f)])
    ELSE IF Called(f) /\ f \notin failed THEN fresh(fsBefore, f)
    ELSE EmptyMap

RECURSIVE contributed_from(_, _)
\* the number of strings of category c the discovered documents gave, from
\* index k of the tree on
contributed_from(c, k) ==
    IF k > Len(Files) THEN 0
    ELSE (IF Files[k] \in discovered /\ c \in DOMAIN contribution(Files[k])
          THEN Cardinality(contribution(Files[k])[c]) ELSE 0)
         + contributed_from(c, k + 1)

\* the fragments listed by a cache entry
entry_fragments(entry) == UNION {ToSet(entry.results[c]) : c \in DOMAIN entry.results}

\* C11: when a scan returns, its aggregate and its counts are those of the
\* documents it discovered and could read, whatever entries the cache holds
\* for files that were removed, are excluded or have a type that is not
\* scanned: such an entry adds no fragment and no count.
C11_OnlyDiscovered ==
    pc = "done" =>
        /\ DOMAIN all_strings = UNION {DOMAIN contribution(f) : f \in discovered}
        /\ DOMAIN file_counts = DOMAIN all_strings
        /\ \A c \in DOMAIN all_strings :
            /\ all_strings[c] =
                 UNION {contribution(f)[c] :
                          f \in {g \in discovered : c \in DOMAIN contribution(g)}}
            /\ file_counts[c] = contributed_from(c, 1)
        /\ \A f \in discovered :
            fsBefore[f] # "Absent" /\ ~excluded(source_dir, f, exclude_dirs)
            /\ \E k \in DOMAIN scan_types : scan_types[k] = suffix(f)

\* C11 witness: a scan returned the fragments of the one document it
\* discovered, from the cache, while the cache held entries with other
\* fragments for a file removed since and for a file now excluded.
C11_Witness ==
    /\ pc = "done" /\ discovered = {"src/b.html"} /\ hits = discovered
    /\ fsBefore["src/a.jsx"] = "Absent" /\ fsBefore["build/c.js"] = "Dialog"
    /\ {"src/a.jsx", "build/c.js"} \subseteq DOMAIN cache.entries
    /\ entry_fragments(cache.entries["src/a.jsx"]) = {"Save"}
    /\ entry_fragments(cache.entries["build/c.js"]) = {"Saved", "Failed"}
    /\ \A c \in DOMAIN all_strings : all_strings[c] \subseteq {"Cancel"}

\* the segments of a path, and the names of an exclusion list, as sets
Segments(root, f) == {parts(root, f)[k] : k \in DOMAIN parts(root, f)}
Names(excl) == {excl[k] : k \in DOMAIN excl}

\* the file exists and has one of the scanned types
Candidate(f) ==
    fs[f] # "Absent" /\ \E k \in DOMAIN scan_types : scan_types[k] = suffix(f)

InParFiles(f) == \E k \in DOMAIN par_files : par_files[k][1] = f

\* C12: in both scanners a file of a scanned type is left out of all_files
\* if and only if one of the segments of its path is one of the excluded
\* names; rebuild/d.js is discovered when build is excluded and rebuild is
\* not.
C12_ExactSegment ==
    \A f \in FileSet :
        /\ pc \notin {"idle", "collect"} =>
            /\ InFiles(f) => Candidate(f)
            /\ Candidate(f) =>
                (~InFiles(f) <=> Segments(source_dir, f) \cap Names(exclude_dirs) # {})
        /\ par_pc # "idle" =>
            /\ InParFiles(f) => Candidate(f)
            /\ Candidate(f) =>
                (~InParFiles(f) <=> Segments(source_dir, f) \cap Names(exclude_dirs) # {})
        /\ (f = "rebuild/d.js" /\ Candidate(f) /\ "rebuild" \notin Names(exclude_dirs)
               /\ (source_dir = "." \/ "proj" \notin Names(exclude_dirs))) =>
            /\ pc \notin {"idle", "collect"} => InFiles(f)
            /\ par_pc # "idle" => InParFiles(f)

\* C12 witness: with build excluded, both scanners left out build/c.js and
\* kept rebuild/d.js.
C12_Witness ==
    /\ pc \notin {"idle", "collect"} /\ par_pc # "idle"
    /\ "build" \in Names(exclude_dirs)
    /\ fs["build/c.js"] # "Absent" /\ fs["rebuild/d.js"] # "Absent"
    /\ ~InFiles("build/c.js") /\ ~InParFiles("build/c.js")
    /\ InFiles("rebuild/d.js") /\ InParFiles("rebuild/d.js")

\* what work item k gives, and whether it is in the aggregate
item_results(k) == process_file(fs, par_files[k])[2]
merged(k) ==
    \A c \in DOMAIN item_results(k) :
        c \in DOMAIN par_strings /\ item_results(k)[c] \subseteq par_strings[c]

\* C13 as stated: when scan_directory_parallel has ended, every submitted
\* document that can be read, but for the one whose worker failed, is in the
\* aggregate.
C13_AsStated ==
    par_pc \in {"done", "raised"} =>
        \A k \in DOMAIN par_files :
            (k # crashed /\ "error" \notin DOMAIN item_results(k)) => merged(k)

work ==
    <<cacheFile, output, pc, cache, all_files, files_to_process, cached_files,
      calls, hits, failed, saves, all_strings, file_counts, par_pc, par_files,
      pending, par_strings, par_counts, completed, order>>

\* C14: a run of main() with a source_dir that does not exist ends with exit
\* status 1, and the step that ends it changes neither the cache file nor
\* the output file nor anything of the scanners: no file was collected, none
\* extracted, the cache neither loaded nor saved.
C14_AbortBeforeWork ==
    /\ [](given_dir = MissingRoot => main_pc = "exit1")
    /\ [][main_pc' = "exit1" => UNCHANGED work]_vars

\* C14 witness: a run with a missing source_dir has ended while the cache
\* file and the output file of an earlier run are there.
C14_Witness ==
    /\ main_pc = "exit1" /\ given_dir = MissingRoot
    /\ output.written /\ cacheFile.kind = "object"
    /\ pc = "done" /\ now = 3

\* Lines 238-244: the statistics a scan prints, "Total files", "Cached
\* files" and "New/changed files".
cache_statistics ==
    [total_files |-> Len(all_files), cached_files |-> cached_files,
     new_files |-> Len(files_to_process)]

\* C15 as stated: when a scan returns, the number of documents whose
\* extraction failed is one of the numbers of its statistics.
C15_AsStated ==
    pc = "done" =>
        \E k \in DOMAIN cache_statistics : cache_statistics[k] = Cardinality(failed)

\* C16 as stated: a discovered file for which the cache file held, under
\* the key of any way of giving the project directory, an entry with the
\* hash of its present content, is a cache hit.
C16_AsStated ==
    (pc = "done" /\ ~force_rescan /\ intact) =>
        \A f \in discovered, r \in Roots :
            (/\ str(r, f) \in DOMAIN load_cache(cacheBefore).entries
             /\ Loaded(str(r, f)).hash = md5(fsBefore[f])) => f \in hits

\* C18 as stated: a discovered document that cannot be read when the
\* classification computes its hash is no cache hit in that scan.
C18_AsStated ==
    \A f \in discovered : fsBefore[f] = "Unreadable" => f \notin hits

\* C19 as stated: every entry of the cache lists the strings of the content
\* its hash is the hash of, and a hit gives the strings of the content the
\* file holds.
C19_AsStated ==
    /\ \A f \in FileSet :
        (f \in DOMAIN cache.entries /\ cache.entries[f].isobj) =>
            \E content \in Text :
                /\ cache.entries[f].hash = md5(content)
                /\ cached_results(cache.entries[f]) = extract_from_file(content, suffix(f))
    /\ \A f \in hits : cached_results(cache.entries[f]) = fresh(fsBefore, f)

\* C20: a scan calls save_cache at most once, and only when every document
\* of files_to_process has been handed to extract_from_file; as long as it
\* has not called it, however the scan ends (killed, an exception), the cache
\* file is what the scan found.
C20_SaveOnce ==
    /\ saves <= 1
    /\ (saves = 1 /\ pc # "killed") =>
        (calls = files_to_process /\ i > Len(files_to_process))
    /\ (saves = 0 /\ ~touched) => cacheFile = cacheBefore

\* C20 witness: a scan that had new results in memory was killed before it
\* saved them, and the cache file of the scan before is unchanged.
C20_Witness ==
    /\ pc = "killed" /\ saves = 0 /\ ~touched
    /\ cacheBefore.kind = "object" /\ cacheFile = cacheBefore
    /\ \E f \in DOMAIN cache.entries :
        /\ f \in DOMAIN cacheFile.entries
        /\ cache.entries[f] # cacheFile.entries[f]

\* the tree as this scan found it, cut down to the discovered documents
DiscoveredTree == Without(fsBefore, FileSet \ discovered)

\* C21 as stated: a scan of a tree that nobody writes to while it is scanned
\* and whose discovered documents can all be read returns the aggregate and
\* the counts of a scan that extracts every document, whatever cache earlier
\* scans left and whether or not the rescan is forced.
C21_AsStated ==
    (pc = "done" /\ fs = fsBefore /\ \A f \in discovered : fsBefore[f] \in Text) =>
        /\ all_strings = expected_strings(DiscoveredTree)
        /\ file_counts = expected_counts(DiscoveredTree)

\* the number of fragments a mapping of one document holds for category c
size_in(results, c) == IF c \in DOMAIN results THEN Cardinality(results[c]) ELSE 0

RECURSIVE documents_sum(_, _)
\* the sum, over the documents of all_files from place k on, of the number of
\* fragments the document contributed to category c
documents_sum(c, k) ==
    IF k > Len(all_files) THEN 0
    ELSE size_in(contribution(all_files[k]), c) + documents_sum(c, k + 1)

\* what work item k of the parallel scan contributes: nothing when its
\* result carries the error marker
item_contribution(k) ==
    IF "error" \in DOMAIN item_results(k) THEN EmptyMap ELSE item_results(k)

RECURSIVE items_sum(_, _)
\* the same sum over the work items of the parallel scan
items_sum(c, k) ==
    IF k > Len(par_files) THEN 0
    ELSE size_in(item_contribution(k), c) + items_sum(c, k + 1)

Extracted == {f \in FileSet : Called(f) /\ pc \in {"saving", "saved", "done"}}

\* the fragments returned under label L for document f are in the aggregate
\* under L and in the cache entry of f under L
merged_and_stored(f, L) ==
    LET file_str == str(source_dir, f)
    IN  /\ L \in DOMAIN all_strings
        /\ fresh(fsBefore, f)[L] \subseteq all_strings[L]
        /\ file_str \in DOMAIN cache.entries
        /\ cache.entries[file_str].isobj
        /\ L \in DOMAIN cache.entries[file_str].results
        /\ ToSet(cache.entries[file_str].results[L]) = fresh(fsBefore, f)[L]

Identities(file) == DOMAIN load_cache(file).entries

\* the document of this scan that has identity d and was extracted without
\* the error marker
SuccessfullyExtracted(d) ==
    \E f \in FileSet : str(source_dir, f) = d /\ Called(f) /\ f \notin failed

C25_AsStated ==
    /\ pc \notin {"idle", "collect"} =>
        \A j, k \in DOMAIN all_files : all_files[j] = all_files[k] => j = k
    /\ \A j, k \in DOMAIN calls : calls[j] = calls[k] => j = k
    /\ pc = "done" => file_counts = expected_counts(DiscoveredTree)
    /\ \A j, k \in DOMAIN par_files : par_files[j][1] = par_files[k][1] => j = k

\* C28: a scan that returned with nothing to process, because every
\* discovered document was a cache hit or because none was discovered, did
\* not call save_cache and the cache file is what the scan found, also
\* when that was no file or an unparseable one.
C28_NoSave ==
    (pc = "done" /\ files_to_process = <<>>) =>
        /\ saves = 0
        /\ ~touched => cacheFile = cacheBefore

\* C28 witness: a scan found an unparseable cache file and no document,
\* returned without a save, and the file is still the unparseable one.
C28_Witness ==
    /\ pc = "done" /\ all_files = <<>> /\ saves = 0
    /\ cacheBefore = GarbageFile /\ cacheFile = GarbageFile

\* the other case of C28: every discovered document was a cache hit
C28_AllHits ==
    /\ pc = "done" /\ all_files # <<>> /\ files_to_process = <<>>
    /\ cached_files = Len(all_files) /\ saves = 0

\* C29 as stated: on one tree, with the same file types and exclusions, the
\* sequential scan, the parallel scan and an incremental scan that found no
\* cache entry return the same aggregate and the same counts.
C29_AsStated ==
    (/\ pc = "done" /\ seq_pc = "done" /\ par_pc = "done"
     /\ Identities(cacheBefore) = {}) =>
        /\ seq_strings = par_strings /\ seq_counts = par_counts
        /\ seq_strings = all_strings /\ seq_counts = file_counts

\* C26 as stated: scan_directory_parallel has returned only when as_completed
\* has yielded as many futures as documents were submitted, and, every work
\* item terminating, a scan that has submitted its documents returns.
C26_AsStated ==
    /\ [](par_pc = "done" => (pending = {} /\ Len(order) = Len(par_files)))
    /\ (par_pc = "pool" ~> par_pc = "done")

\* what does hold: a scan that has submitted its documents comes to an end,
\* by returning or with the exception of a failed worker
C26_Ends == par_pc = "pool" ~> par_pc \in {"done", "raised"}

\* C27 as stated: no run loads the cache file while it is written, and
\* when the two runs that share the cache directory have both ended, the
\* cache file is a JSON object that holds an entry for every identity either
\* run stored one for.
C27_AsStated ==
    /\ cacheBefore.kind # "truncated"
    /\ (pc = "done" /\ peer_pc = "done") =>
        /\ cacheFile.kind = "object"
        /\ peer_new \subseteq Identities(cacheFile)
        /\ saves = 1 =>
            \A f \in FileSet :
                (Called(f) /\ f \notin failed) =>
                    str(source_dir, f) \in Identities(cacheFile)

\* the lost update alone, without a read of a half-written file
C27_LostUpdate ==
    (pc = "done" /\ peer_pc = "done" /\ now = 1 /\ saves = 1
     /\ cacheBefore = AbsentFile /\ cacheFile.kind = "object") =>
        \A f \in FileSet :
            (Called(f) /\ f \notin failed) => str(source_dir, f) \in Identities(cacheFile)

\* the output groups that hold the value of source key k
groups_of(k) ==
    {g \in DOMAIN split_data :
        \E new_key \in DOMAIN split_data[g] : split_data[g][new_key] = data[k]}

\* the sum of the sizes of the output groups
total_size ==
    Cardinality({pair \in (DOMAIN split_data)
                         \X (UNION {DOMAIN split_data[g] : g \in DOMAIN split_data}) :
                    pair[2] \in DOMAIN split_data[pair[1]]})

\* C30 as stated: once split_by_feature has returned, every key of the
\* source mapping is in exactly one output group, and the sizes of the
\* groups add up to the number of source keys, also when a prefix is named
\* 'common'.
C30_AsStated ==
    split_pc \in {"split", "written"} =>
        /\ \A k \in DOMAIN data : Cardinality(groups_of(k)) = 1
        /\ total_size = Cardinality(DOMAIN data)

\* what does hold: the same partition when no prefix is named 'common' or
\* every key holds a dot
C30_NoClash ==
    (/\ split_pc \in {"split", "written"}
     /\ \/ \A n \in DOMAIN features : features[n] # "common"
        \/ \A k \in DOMAIN data : Len(k) > 1) =>
        /\ \A k \in DOMAIN data : Cardinality(groups_of(k)) = 1
        /\ total_size = Cardinality(DOMAIN data)

====
